---- MODULE Spec2Model ----
(***************************************************************************)
(* Model of mqtt_helper: the connection lifecycle of BaseMqttMixin         *)
(* (mixins/base_mqtt.py) and the guarded publish of MqttHelper (core.py).  *)
(*                                                                         *)
(* Two threads take part.  The paho network thread of each client object   *)
(* delivers events through the wrapper built by _wrap_async, which hands   *)
(* them to the asyncio loop with call_soon_threadsafe.  The loop keeps one *)
(* FIFO of ready handles: a submitted callback creates a task, whose first *)
(* step is appended to the same FIFO.  All handlers run on the loop.       *)
(***************************************************************************)
EXTENDS Integers, Sequences, FiniteSets, TLC

\* ---------------------------------------------------------------- bounds
\* Number of mqtt.Client objects mqttc_create may build in one behaviour.
MaxClients == 3
\* The wall clock advances in steps of TickSeconds up to MaxTime.
TickSeconds == 5
MaxTime == 20
\* Number of handles the loop's ready FIFO may hold.
MaxReady == 3
\* Number of message, subscribe and log events the network threads deliver.
MaxOther == 2
\* Longest string given to slug and to disc_t.
MaxLen == 3

\* ------------------------------------------------------- program constants
\* BaseMqttMixin.reconnect_retry_grace_seconds
reconnect_retry_grace_seconds == 10

\* Python's None for the handle, the client object and the connect time.
None == 0
NoTime == -1

ClientIds == 1..MaxClients

\* The value of a keyword argument the caller did not pass.
Unset == "unset"

\* mqtt_subscription_topics(): the list the subclass returns.
mqtt_subscription_topics == <<"cmd/a", "cmd/b">>

\* The configurations a host may carry: without and with publish defaults.
Configs ==
  { [default_qos |-> Unset, default_retain |-> Unset],
    [default_qos |-> "1",   default_retain |-> "True"] }

VARIABLES
  now,                \* wall clock read by datetime.now() (base_mqtt.py 77, 135)
  mqtt_config,        \* self.mqtt_config, fixed at construction
  running,            \* self.running (base_mqtt.py 81, 85, 137, 141)
  mqttc,              \* self.mqttc: the current client object, None before
                      \* the start (base_mqtt.py 36)
  mqtt_connect_time,  \* self.mqtt_connect_time (base_mqtt.py 77)
  client,             \* MqttHelper.client, the connection handle (core.py 15-21)
  net,                \* per client object: what its network thread has seen,
                      \* "unused", "connected", "acked", "refused" or "closed"
  ready,              \* the loop's FIFO of ready handles (base_mqtt.py 95)
  task,               \* per client object: its mqtt_on_connect coroutine
  exited,             \* SystemExit was raised on the loop (base_mqtt.py 82, 86)
  service_slug,       \* MqttHelper.service_slug (core.py 13)
  lib,                \* per client object: the library calls mqttc_create
                      \* has made on it, in order (base_mqtt.py 64, 74)
  delivered,          \* per kind of event: how many the network threads have
                      \* handed to the wrapper
  lastStarted,        \* history, per kind of event: the delivery number of
                      \* the event whose handler started last
  state,              \* history: lifecycle state the handlers have produced
  last                \* history: the operation that ran last, with its inputs
                      \* and its outcome

vars == <<now, mqtt_config, running, mqttc, mqtt_connect_time, client, net,
          ready, task, exited, service_slug, lib, delivered, lastStarted,
          state, last>>

\* ------------------------------------------------------------------ helpers
\* A coroutine: where it stands (pc), the hook it is suspended in (hook, 0 when
\* in none) and the calls it has made so far (trace).
IdleTask == [pc |-> "none", hook |-> 0, trace |-> <<>>]

Call(name, arg) == [call |-> name, arg |-> arg]

\* The subscribe calls of lines 117-118, in list order.
RECURSIVE SubscribeCalls(_)
SubscribeCalls(topics) ==
  IF topics = <<>> THEN <<>>
  ELSE <<Call("subscribe", Head(topics))>> \o SubscribeCalls(Tail(topics))

\* -------------------------------------------------------------- topic names
\* core.py works on str values character by character (re.sub, "/".join): a
\* string is a sequence of one-character strings.
Alnum ==
  { "a", "b", "c", "d", "e", "f", "g", "h", "i", "j", "k", "l", "m", "n",
    "o", "p", "q", "r", "s", "t", "u", "v", "w", "x", "y", "z", "A", "B",
    "C", "D", "E", "F", "G", "H", "I", "J", "K", "L", "M", "N", "O", "P",
    "Q", "R", "S", "T", "U", "V", "W", "X", "Y", "Z", "0", "1", "2", "3",
    "4", "5", "6", "7", "8", "9" }

\* The string literals of core.py and base_mqtt.py.
W_status == <<"s", "t", "a", "t", "u", "s">>
W_homeassistant == <<"h", "o", "m", "e", "a", "s", "s", "i", "s", "t", "a", "n", "t">>
W_config == <<"c", "o", "n", "f", "i", "g">>
W_availability == <<"a", "v", "a", "i", "l", "a", "b", "i", "l", "i", "t", "y">>
W_attributes == <<"a", "t", "t", "r", "i", "b", "u", "t", "e", "s">>
W_cmd == <<"c", "m", "d">>
W_set == <<"s", "e", "t">>
W_service == <<"s", "e", "r", "v", "i", "c", "e">>
W_offline == <<"o", "f", "f", "l", "i", "n", "e">>

Slash == <<"/">>
Underscore == <<"_">>
Dash == <<"-">>

\* sep.join(segs)
RECURSIVE Join(_, _)
Join(sep, segs) ==
  IF segs = <<>> THEN <<>>
  ELSE IF Len(segs) = 1 THEN segs[1]
  ELSE segs[1] \o sep \o Join(sep, Tail(segs))

\* filter(None, segs): the non-empty strings of segs.
NonEmpty(segs) == SelectSeq(segs, LAMBDA x : x # <<>>)

\* Fault variant of slug: only the first run of other characters is removed
\* (re.sub with count=1).
RECURSIVE slug_first_run(_)
slug_first_run(str) ==
  IF str = <<>> THEN <<>>
  ELSE IF Head(str) \in Alnum THEN <<Head(str)>> \o slug_first_run(Tail(str))
  ELSE LET rest == Tail(str)
           k == IF \E i \in 1..Len(rest) : rest[i] \in Alnum
                THEN CHOOSE i \in 1..Len(rest) :
                       rest[i] \in Alnum /\ \A j \in 1..(i - 1) : rest[j] \notin Alnum
                ELSE Len(rest) + 1
       IN SubSeq(rest, k, Len(rest))

\* re.sub(r"[^a-zA-Z0-9]+", "", str) (core.py lines 13, 34, 37, 42): every
\* run of characters outside a-z, A-Z, 0-9 is removed.
slug(str) == SelectSeq(str, LAMBDA ch : ch \in Alnum)

\* core.py lines 33-34, 36-37, 41-42; ss is self.service_slug.
device_slug(ss, device_id) == Join(Underscore, NonEmpty(<<ss, slug(device_id)>>))
svc_unique_id(ss, entity) == Join(Underscore, <<ss, slug(entity)>>)
dev_unique_id(ss, device_id, entity) ==
  Join(Underscore, <<device_slug(ss, device_id), slug(entity)>>)

\* The list each topic builder hands to "/".join (core.py lines 46-92);
\* parts is the tuple *parts.
svc_t_list(ss, topic) == <<ss, W_status, topic>>

device_t_list(ss, component_type, device_id, parts) ==
  IF device_id = W_service
  THEN <<ss>> \o parts
  ELSE <<ss, component_type, device_slug(ss, device_id)>> \o parts

disc_t_list(ss, component, item) ==
  <<W_homeassistant, component, ss \o Underscore \o item, W_config>>

stat_t_list(ss, device_id, category, parts) ==
  IF device_id = W_service
  THEN <<ss, category>> \o parts
  ELSE <<ss, device_slug(ss, device_id), category>> \o parts

avty_t_list(ss, device_id, category, parts) ==
  IF device_id = W_service
  THEN <<ss, category>> \o parts
  ELSE <<ss, device_slug(ss, device_id), category>> \o parts

attr_t_list(ss, device_id, category, parts) ==
  IF device_id = W_service
  THEN <<ss, category>> \o parts
  ELSE <<W_homeassistant, device_slug(ss, device_id), category>> \o parts

cmd_t_list(ss, device_id, category, parts) ==
  IF device_id = W_service
  THEN <<ss, W_service, category, W_set>>
  ELSE <<ss, device_slug(ss, device_id), category>> \o parts \o <<W_set>>

\* The topic builders: the joined string.
svc_t(ss, topic) == Join(Slash, svc_t_list(ss, topic))
device_t(ss, component_type, device_id, parts) ==
  Join(Slash, device_t_list(ss, component_type, device_id, parts))
stat_t(ss, device_id, category, parts) ==
  Join(Slash, stat_t_list(ss, device_id, category, parts))
avty_t(ss, device_id, category, parts) ==
  Join(Slash, avty_t_list(ss, device_id, category, parts))
attr_t(ss, device_id, category, parts) ==
  Join(Slash, attr_t_list(ss, device_id, category, parts))
cmd_t(ss, device_id, category, parts) ==
  Join(Slash, cmd_t_list(ss, device_id, category, parts))

\* disc_t (lines 61-64): ValueError for an empty component or item.
\* Fault variant of disc_t: only the component is validated.
disc_t_component_only(ss, component, item) ==
  IF component = <<>>
  THEN [raised |-> "ValueError", value |-> <<>>]
  ELSE [raised |-> "none", value |-> Join(Slash, disc_t_list(ss, component, item))]

disc_t(ss, component, item) ==
  IF component = <<>> \/ item = <<>>
  THEN [raised |-> "ValueError", value |-> <<>>]
  ELSE [raised |-> "none", value |-> Join(Slash, disc_t_list(ss, component, item))]

\* --------------------------------------------------------- state at start
\* The service names MqttHelper is constructed with: "Demo" and "My Svc!".
Services == { <<"D", "e", "m", "o">>, <<"M", "y", " ", "S", "v", "c", "!">> }

\* The callbacks mqttc_create registers through _wrap_async (lines 58-62).
EventNames == {"on_connect", "on_disconnect", "on_message", "on_subscribe", "on_log"}

Init ==
  /\ now = 0
  /\ mqtt_config \in Configs
  /\ running = TRUE
  /\ mqttc = None
  /\ mqtt_connect_time = NoTime
  /\ client = None
  /\ net = [c \in ClientIds |-> "unused"]
  /\ ready = <<>>
  /\ task = [c \in ClientIds |-> IdleTask]
  /\ exited = FALSE
  /\ service_slug \in {slug(name) : name \in Services}
  /\ lib = [c \in ClientIds |-> <<>>]
  /\ delivered = [name \in EventNames |-> 0]
  /\ lastStarted = [name \in EventNames |-> 0]
  /\ state = "Disconnected"
  /\ last = [op |-> "none"]

\* The exceptions the library connect call may raise (line 74); "none" is a
\* connect call that returns.
ConnectErrors == {"none", "ConnectionError", "OSError"}

\* Fault variant of will_set_call: the will is not retained.
will_set_call_not_retained(ss) ==
  [call |-> "will_set", topic |-> avty_t(ss, W_service, W_availability, <<>>),
   payload |-> W_offline, qos |-> 1, retain |-> FALSE]

\* Line 64: will_set(self.mqtt_helper.avty_t("service"), "offline", qos=1,
\* retain=True); avty_t's category is its default, "availability".
will_set_call(ss) ==
  [call |-> "will_set", topic |-> avty_t(ss, W_service, W_availability, <<>>),
   payload |-> W_offline, qos |-> 1, retain |-> TRUE]

\* Line 74: mqttc.connect(host, port, keepalive, properties).
connect_call == [call |-> "connect"]

\* Fault variant of mqttc_create: the except branches raise SystemExit but
\* leave running as it is.
mqttc_create_keeps_running(err) ==
  /\ mqttc < MaxClients
  /\ mqttc' = mqttc + 1
  /\ lib' = [lib EXCEPT ![mqttc + 1] = <<will_set_call(service_slug), connect_call>>]
  /\ IF err = "none"
     THEN /\ mqtt_connect_time' = now
          /\ net' = [net EXCEPT ![mqttc + 1] = "connected"]
          /\ state' = "Connecting"
          /\ UNCHANGED <<running, exited>>
     ELSE /\ exited' = TRUE
          /\ state' = "Stopped"
          /\ UNCHANGED <<running, mqtt_connect_time, net>>

\* ------------------------------------------------------------ mqttc_create
\* Lines 33-86.  A new client object replaces self.mqttc, the callbacks and
\* the will are registered, then connect is called.  When it returns, the
\* connect time is recorded and the client's network thread is started; when
\* it raises, running is cleared and SystemExit is raised.
mqttc_create(err) ==
  /\ mqttc < MaxClients
  /\ mqttc' = mqttc + 1
  /\ lib' = [lib EXCEPT ![mqttc + 1] = <<will_set_call(service_slug), connect_call>>]
  /\ IF err = "none"
     THEN /\ mqtt_connect_time' = now
          /\ net' = [net EXCEPT ![mqttc + 1] = "connected"]
          /\ state' = "Connecting"
          /\ UNCHANGED <<running, exited>>
     ELSE /\ running' = FALSE
          /\ exited' = TRUE
          /\ state' = "Stopped"
          /\ UNCHANGED <<mqtt_connect_time, net>>

\* The host starts the manager: its first await of mqttc_create.
Start ==
  /\ ~exited
  /\ mqttc = None
  /\ running
  /\ \E err \in ConnectErrors :
       /\ mqttc_create(err)
       /\ last' = [op |-> "start",
                   raised |-> IF err = "none" THEN "none" ELSE "SystemExit",
                   attempts |-> mqttc' - mqttc, pre_running |-> running,
                   post_running |-> running', post_client |-> client,
                   post_mqttc |-> mqttc']
  /\ UNCHANGED <<now, mqtt_config, service_slug, delivered, lastStarted, client, ready, task>>

\* The host asks the service to stop: it clears the running flag.
HostStop ==
  /\ ~exited
  /\ running
  /\ running' = FALSE
  /\ last' = [op |-> "stop"]
  /\ UNCHANGED <<now, mqtt_config, service_slug, lib, delivered, lastStarted, mqttc, mqtt_connect_time, client, net,
                 ready, task, exited, state>>

\* The wall clock advances.
Tick ==
  /\ ~exited
  /\ now + TickSeconds <= MaxTime
  /\ now' = now + TickSeconds
  /\ UNCHANGED <<mqtt_config, service_slug, lib, delivered, lastStarted, running, mqttc, mqtt_connect_time, client, net,
                 ready, task, exited, state, last>>

\* Fault variant of wrapper: the callback is put at the front of the FIFO.
wrapper_at_front(ev) ==
  /\ Len(ready) < MaxReady
  /\ delivered' = [delivered EXCEPT ![ev.name] = @ + 1]
  /\ ready' = <<[kind |-> "callback", ev |-> ev,
                 seq |-> delivered[ev.name] + 1]>> \o ready

\* ------------------------------------------------------------ _wrap_async
\* Lines 94-95, run on a client's network thread: the wrapper submits a
\* callback to the loop and returns.
wrapper(ev) ==
  /\ Len(ready) < MaxReady
  /\ delivered' = [delivered EXCEPT ![ev.name] = @ + 1]
  /\ ready' = Append(ready, [kind |-> "callback", ev |-> ev,
                              seq |-> delivered[ev.name] + 1])

\* The reason codes of the model: 0 is success, 135 is "Not authorized".
ReasonCodes == {0, 135}

\* The broker's CONNACK arrives on the network thread of client c.
NetConnack(c, rc) ==
  /\ ~exited
  /\ net[c] = "connected"
  /\ wrapper([name |-> "on_connect", cl |-> c, rc |-> rc])
  /\ net' = [net EXCEPT ![c] = IF rc = 0 THEN "acked" ELSE "refused"]
  /\ UNCHANGED <<now, mqtt_config, service_slug, lib, lastStarted, running, mqttc, mqtt_connect_time, client,
                 task, exited, state, last>>

\* Fault variant of NetDisconnect: the client reconnects on its own
\* (reconnect_on_failure=True), so its connection is live again.
NetDisconnect_reconnects(c, rc) ==
  /\ ~exited
  /\ net[c] \in {"connected", "acked", "refused"}
  /\ wrapper([name |-> "on_disconnect", cl |-> c, rc |-> rc])
  /\ net' = [net EXCEPT ![c] = "connected"]
  /\ UNCHANGED <<now, mqtt_config, service_slug, lib, lastStarted, running, mqttc, mqtt_connect_time, client,
                 task, exited, state, last>>

\* The connection of client c ends; its network thread reports it and stops
\* (reconnect_on_failure=False, line 39).
NetDisconnect(c, rc) ==
  /\ ~exited
  /\ net[c] \in {"connected", "acked", "refused"}
  /\ wrapper([name |-> "on_disconnect", cl |-> c, rc |-> rc])
  /\ net' = [net EXCEPT ![c] = "closed"]
  /\ UNCHANGED <<now, mqtt_config, service_slug, lib, lastStarted, running, mqttc, mqtt_connect_time, client,
                 task, exited, state, last>>

\* The events besides connect and disconnect (lines 60-62).
OtherEvents == {"on_message", "on_subscribe", "on_log"}

\* The network thread of client c reports a message, a subscribe result or a
\* log line: messages and subscribe results while connected, log lines
\* whenever the thread runs.
NetOther(c, name) ==
  /\ ~exited
  /\ delivered["on_message"] + delivered["on_subscribe"] + delivered["on_log"] < MaxOther
  /\ IF name = "on_log"
     THEN net[c] \in {"connected", "acked", "refused"}
     ELSE net[c] = "acked"
  /\ wrapper([name |-> name, cl |-> c, rc |-> 0])
  /\ UNCHANGED <<now, mqtt_config, service_slug, lib, lastStarted, running, mqttc,
                 mqtt_connect_time, client, net, task, exited, state, last>>

\* mqtt_on_log (lines 143-147), mqtt_on_subscribe (lines 149-159) and the
\* subclass's mqtt_on_message: the handler starts and writes to the log.
StartOther ==
  /\ ~exited
  /\ ready # <<>>
  /\ Head(ready).kind = "task"
  /\ Head(ready).ev.name \in OtherEvents
  /\ ready' = Tail(ready)
  /\ lastStarted' = [lastStarted EXCEPT ![Head(ready).ev.name] = Head(ready).seq]
  /\ UNCHANGED <<now, mqtt_config, service_slug, lib, delivered, running, mqttc,
                 mqtt_connect_time, client, net, task, exited, state, last>>

\* The loop runs a submitted callback: the lambda of line 95 creates the
\* task, whose first step joins the end of the ready FIFO.
RunCallback ==
  /\ ~exited
  /\ ready # <<>>
  /\ Head(ready).kind = "callback"
  /\ ready' = Append(Tail(ready), [kind |-> "task", ev |-> Head(ready).ev,
                                    seq |-> Head(ready).seq])
  /\ UNCHANGED <<now, mqtt_config, service_slug, lib, delivered, lastStarted, running, mqttc, mqtt_connect_time, client,
                 net, task, exited, state, last>>

\* Fault variant of PostConnectHooks: state is published before availability.
PostConnectHooks_state_first ==
  <<"publish_service_discovery", "publish_service_state",
    "publish_service_availability">>

\* ---------------------------------------------------------- mqtt_on_connect
\* The three post-connect hooks of lines 112-114, in the order of the code.
PostConnectHooks ==
  <<"publish_service_discovery", "publish_service_availability",
    "publish_service_state">>

\* Everything a mqtt_on_connect coroutine calls when it runs to its end.
ConnectCalls ==
  [i \in 1..Len(PostConnectHooks) |-> Call(PostConnectHooks[i], "")]
    \o SubscribeCalls(mqtt_subscription_topics)

\* Fault variant of clear_client: the handle is left as it is.
clear_client_keeps_handle == UNCHANGED client

\* Fault variant of set_client: the handle is not stored.
set_client_stores_nothing(c) == UNCHANGED client

\* MqttHelper.set_client / clear_client (core.py lines 17-21).
set_client(c) == client' = c
clear_client == client' = None

\* Lines 107-112: the first step of the coroutine.  A non-zero reason code
\* raises MqttError inside the task, which nobody awaits; otherwise the handle
\* is stored and the first hook is awaited.
StartOnConnect ==
  /\ ~exited
  /\ ready # <<>>
  /\ Head(ready).kind = "task"
  /\ Head(ready).ev.name = "on_connect"
  /\ LET ev == Head(ready).ev IN
       /\ ready' = Tail(ready)
       /\ lastStarted' = [lastStarted EXCEPT ![ev.name] = Head(ready).seq]
       /\ IF ev.rc # 0
          THEN /\ task' = [task EXCEPT ![ev.cl] = [pc |-> "raised", hook |-> 0, trace |-> <<>>]]
               /\ UNCHANGED <<client, state>>
          ELSE /\ set_client(ev.cl)
               /\ state' = "Connected"
               /\ task' = [task EXCEPT ![ev.cl] =
                             [pc |-> "hook", hook |-> 1, trace |-> <<ConnectCalls[1]>>]]
       /\ last' = [op |-> "mqtt_on_connect", cl |-> ev.cl, rc |-> ev.rc,
                   raised |-> IF ev.rc # 0 THEN "MqttError" ELSE "none",
                   attempts |-> 0, pre_running |-> running,
                   post_running |-> running, post_client |-> client',
                   post_mqttc |-> mqttc, at |-> now,
                   connect_time |-> mqtt_connect_time]
  /\ UNCHANGED <<now, mqtt_config, service_slug, lib, delivered, running, mqttc, mqtt_connect_time, net, exited>>

\* Lines 112-118: the hook a coroutine is suspended in returns.  After the
\* first and the second hook the next one is awaited; after the third the
\* coroutine subscribes to every topic, without suspending, and ends.
HookReturns(c) ==
  /\ ~exited
  /\ task[c].pc = "hook"
  /\ LET i == task[c].hook IN
       task' = [task EXCEPT ![c] =
                  IF i < Len(PostConnectHooks)
                  THEN [pc |-> "hook", hook |-> i + 1,
                        trace |-> Append(task[c].trace, ConnectCalls[i + 1])]
                  ELSE [pc |-> "done", hook |-> 0,
                        trace |-> task[c].trace \o SubscribeCalls(mqtt_subscription_topics)]]
  /\ UNCHANGED <<now, mqtt_config, service_slug, lib, delivered, lastStarted, running, mqttc, mqtt_connect_time, client,
                 net, ready, exited, state, last>>

\* The hook a coroutine is suspended in raises: the coroutine ends there.
HookRaises(c) ==
  /\ ~exited
  /\ task[c].pc = "hook"
  /\ task' = [task EXCEPT ![c].pc = "raised", ![c].hook = 0]
  /\ UNCHANGED <<now, mqtt_config, service_slug, lib, delivered, lastStarted, running, mqttc, mqtt_connect_time, client,
                 net, ready, exited, state, last>>

\* ------------------------------------------------------- mqtt_on_disconnect
\* Fault variants of reconnect_after: the comparison turned around, and the
\* time not looked at.
reconnect_after_inside_grace(connect_time, t) ==
  \/ connect_time = NoTime
  \/ t <= connect_time + reconnect_retry_grace_seconds

reconnect_after_always(connect_time, t) == TRUE

\* Line 135: whether the disconnect comes after the grace period that
\* follows the last connect.
reconnect_after(connect_time, t) ==
  \/ connect_time = NoTime
  \/ t > connect_time + reconnect_retry_grace_seconds

\* Fault variant of should_reconnect: the running flag is not consulted.
should_reconnect_ignores_running(run, connect_time, t) ==
  reconnect_after(connect_time, t)

\* Line 137: if self.running and reconnect_after.
should_reconnect(run, connect_time, t) ==
  run /\ reconnect_after(connect_time, t)

\* Lines 128-141, one step: mqttc_create holds no await, so the coroutine
\* never suspends.
StartOnDisconnect ==
  /\ ~exited
  /\ ready # <<>>
  /\ Head(ready).kind = "task"
  /\ Head(ready).ev.name = "on_disconnect"
  /\ LET ev == Head(ready).ev IN
       /\ ready' = Tail(ready)
       /\ lastStarted' = [lastStarted EXCEPT ![ev.name] = Head(ready).seq]
       /\ clear_client
       /\ IF should_reconnect(running, mqtt_connect_time, now)
          THEN \E err \in ConnectErrors :
                 /\ mqttc_create(err)
                 /\ last' = [op |-> "mqtt_on_disconnect", cl |-> ev.cl, rc |-> ev.rc,
                             raised |-> IF err = "none" THEN "none" ELSE "SystemExit",
                             attempts |-> mqttc' - mqttc, pre_running |-> running,
                             post_running |-> running', post_client |-> client',
                             post_mqttc |-> mqttc', at |-> now, connect_time |-> mqtt_connect_time]
          ELSE /\ running' = FALSE
               /\ state' = "Stopped"
               /\ UNCHANGED <<mqttc, mqtt_connect_time, net, exited, lib>>
               /\ last' = [op |-> "mqtt_on_disconnect", cl |-> ev.cl, rc |-> ev.rc,
                           raised |-> "none",
                           attempts |-> mqttc' - mqttc, pre_running |-> running,
                           post_running |-> running', post_client |-> client',
                           post_mqttc |-> mqttc', at |-> now, connect_time |-> mqtt_connect_time]
  /\ UNCHANGED <<now, mqtt_config, service_slug, delivered, task>>

\* ------------------------------------------------------------- safe_publish
\* Strings whose characters matter are sequences of one-character strings.
Slashes(n) == [i \in 1..n |-> "/"]

\* The payloads of the model: None, a str, and dicts as sets of items
\* (key, value): with the key "component", with a value holding six and seven
\* slashes in a row, with the key "//////", and a harmless one.
Payloads ==
  { [type |-> "NoneType"],
    [type |-> "str", value |-> <<"o", "n">>],
    [type |-> "dict", items |-> {[k |-> "component", v |-> <<"s", "w">>]}],
    [type |-> "dict", items |-> {[k |-> "url", v |-> <<"a">> \o Slashes(6) \o <<"b">>]}],
    [type |-> "dict", items |-> {[k |-> "url", v |-> Slashes(7)]}],
    [type |-> "dict", items |-> {[k |-> "//////", v |-> <<"x">>]}],
    [type |-> "dict", items |-> {[k |-> "state", v |-> <<"o", "n">>]}] }

Topics == {"", "svc/state"}

\* The keyword arguments a caller passes on to publish.
Kwargs ==
  { [qos |-> Unset, retain |-> Unset],
    [qos |-> "2", retain |-> Unset],
    [qos |-> Unset, retain |-> "False"],
    [qos |-> "0", retain |-> "True"] }

\* `key in payload` for a dict: membership among its keys.
DictHasKey(payload, key) == \E it \in payload.items : it.k = key

\* MqttHelper.__init__ (core.py lines 11-15) sets service, service_slug and
\* client: a MqttHelper has no attribute logger.
HelperHasLogger == FALSE

\* Line 118: the test for a questionable payload.
questionable(payload) ==
  /\ payload.type = "dict"
  /\ (DictHasKey(payload, "component") \/ DictHasKey(payload, "//////"))

\* Fault variant of publish_call: the caller's keyword arguments are dropped.
publish_call_without_kwargs(topic, payload, kwargs) ==
  [topic |-> topic,
   payload |-> IF payload.type = "NoneType"
               THEN [type |-> "str", value |-> <<"n", "u", "l", "l">>]
               ELSE payload,
   qos |-> Unset,
   retain |-> Unset]

\* Lines 125-128: the one publish call of the library, with the payload
\* "null" for None and the caller's keyword arguments as they are.
publish_call(topic, payload, kwargs) ==
  [topic |-> topic,
   payload |-> IF payload.type = "NoneType"
               THEN [type |-> "str", value |-> <<"n", "u", "l", "l">>]
               ELSE payload,
   qos |-> kwargs.qos,
   retain |-> kwargs.retain]

\* Fault variant of safe_publish: the topic is not looked at.
safe_publish_any_topic(handle, topic, payload, kwargs, lib_raises) ==
  IF handle = None
  THEN [raised |-> "SystemError", calls |-> <<>>]
  ELSE IF questionable(payload)
  THEN [raised |-> IF HelperHasLogger THEN "ValueError" ELSE "AttributeError",
        calls |-> <<>>]
  ELSE [raised |-> IF lib_raises /\ ~HelperHasLogger THEN "AttributeError" ELSE "none",
        calls |-> <<[topic |-> topic, payload |-> payload,
                     qos |-> kwargs.qos, retain |-> kwargs.retain]>>]

\* Lines 111-130: the exception safe_publish ends with ("none" when it
\* returns) and the library publish calls it has made.  lib_raises says
\* whether the library's publish raises.
safe_publish(handle, topic, payload, kwargs, lib_raises) ==
  IF handle = None
  THEN [raised |-> "SystemError", calls |-> <<>>]
  ELSE IF topic = ""
  THEN [raised |-> "ValueError", calls |-> <<>>]
  ELSE IF questionable(payload)
  THEN [raised |-> IF HelperHasLogger THEN "ValueError" ELSE "AttributeError",
        calls |-> <<>>]
  ELSE [raised |-> IF lib_raises /\ ~HelperHasLogger THEN "AttributeError" ELSE "none",
        calls |-> <<publish_call(topic, payload, kwargs)>>]

\* Any code on the loop calls safe_publish.
SafePublish(topic, payload, kwargs, lib_raises) ==
  /\ ~exited
  /\ LET r == safe_publish(client, topic, payload, kwargs, lib_raises) IN
       last' = [op |-> "safe_publish", topic |-> topic, payload |-> payload,
                kwargs |-> kwargs, lib_raises |-> lib_raises, handle |-> client,
                raised |-> r.raised, calls |-> r.calls,
                post_client |-> client, post_state |-> state]
  /\ UNCHANGED <<now, mqtt_config, service_slug, lib, delivered, lastStarted, running, mqttc, mqtt_connect_time, client,
                 net, ready, task, exited, state>>

\* ------------------------------------------------------------------- system
Next ==
  \/ Start
  \/ HostStop
  \/ Tick
  \/ \E c \in ClientIds, rc \in ReasonCodes : NetConnack(c, rc)
  \/ \E c \in ClientIds, rc \in ReasonCodes : NetDisconnect(c, rc)
  \/ RunCallback
  \/ StartOnConnect
  \/ \E c \in ClientIds : HookReturns(c)
  \/ \E c \in ClientIds : HookRaises(c)
  \/ StartOnDisconnect

Spec == Init /\ [][Next]_vars

\* The lifecycle with the message, subscribe and log events of the library.
BridgeNext ==
  \/ Next
  \/ \E c \in ClientIds, name \in OtherEvents : NetOther(c, name)
  \/ StartOther

\* The events do not depend on the configuration or on the service name: one
\* of each is enough.
BridgeInit ==
  /\ Init
  /\ mqtt_config = [default_qos |-> Unset, default_retain |-> Unset]
  /\ service_slug = slug(<<"D", "e", "m", "o">>)

BridgeSpec == BridgeInit /\ [][BridgeNext]_vars

\* ------------------------------------------------------ calls of the namer
\* The characters of the strings given to the namer: letters and a digit,
\* and characters that slug removes.
Chars == {"a", "Z", "9", "_", " ", "/"}

\* The strings of at most n characters.
Strings(n) == UNION {[1..k -> Chars] : k \in 0..n}

\* The arguments given to the topic builders: device ids (the sentinel, one
\* with a blank, the empty one), categories (the defaults, a plain one, one
\* with a slash) and trailing parts.
DeviceIds == {W_service, <<"L", " ", "1">>, <<>>}
Categories == {W_availability, W_attributes, W_cmd, <<"s">>, W_cmd \o Slash \o W_set}
PartsArgs == {<<>>, <<W_set>>}
Builders == {"svc_t", "device_t", "stat_t", "avty_t", "attr_t", "cmd_t"}

\* The list a builder joins: svc_t takes the category as its topic,
\* device_t as its component type.
builder_list(b, ss, device_id, category, parts) ==
  CASE b = "svc_t"    -> svc_t_list(ss, category)
    [] b = "device_t" -> device_t_list(ss, category, device_id, parts)
    [] b = "stat_t"   -> stat_t_list(ss, device_id, category, parts)
    [] b = "avty_t"   -> avty_t_list(ss, device_id, category, parts)
    [] b = "attr_t"   -> attr_t_list(ss, device_id, category, parts)
    [] b = "cmd_t"    -> cmd_t_list(ss, device_id, category, parts)

builder_call(b, ss, device_id, category, parts) ==
  [builder |-> b, device_id |-> device_id, category |-> category, parts |-> parts,
   list |-> builder_list(b, ss, device_id, category, parts),
   value |-> Join(Slash, builder_list(b, ss, device_id, category, parts))]

\* Code on the loop derives a slug.
CallSlug(str) ==
  /\ last.op = "none"
  /\ last' = [op |-> "slug", arg |-> str, result |-> slug(str)]
  /\ UNCHANGED <<now, mqtt_config, service_slug, lib, delivered, lastStarted,
                 running, mqttc, mqtt_connect_time, client, net, ready, task,
                 exited, state>>

\* Code on the loop builds a discovery topic.
CallDiscT(component, item) ==
  /\ last.op = "none"
  /\ last' = [op |-> "disc_t", component |-> component, item |-> item,
              result |-> disc_t(service_slug, component, item)]
  /\ UNCHANGED <<now, mqtt_config, service_slug, lib, delivered, lastStarted,
                 running, mqttc, mqtt_connect_time, client, net, ready, task,
                 exited, state>>

\* Code on the loop builds one topic.
CallBuilder(b, device_id, category, parts) ==
  /\ last.op = "none"
  /\ last' = [op |-> "topic",
              a |-> builder_call(b, service_slug, device_id, category, parts)]
  /\ UNCHANGED <<now, mqtt_config, service_slug, lib, delivered, lastStarted,
                 running, mqttc, mqtt_connect_time, client, net, ready, task,
                 exited, state>>

\* Code on the loop builds two topics with two builders.
CallPair(b1, b2, d1, d2, c1, c2, p1, p2) ==
  /\ last.op = "none"
  /\ b1 # b2
  /\ last' = [op |-> "topics",
              a |-> builder_call(b1, service_slug, d1, c1, p1),
              b |-> builder_call(b2, service_slug, d2, c2, p2)]
  /\ UNCHANGED <<now, mqtt_config, service_slug, lib, delivered, lastStarted,
                 running, mqttc, mqtt_connect_time, client, net, ready, task,
                 exited, state>>

\* The caller takes the result and goes on.
CallReturns ==
  /\ last.op \in {"slug", "disc_t", "topic", "topics"}
  /\ last' = [op |-> "none"]
  /\ UNCHANGED <<now, mqtt_config, service_slug, lib, delivered, lastStarted,
                 running, mqttc, mqtt_connect_time, client, net, ready, task,
                 exited, state>>

NamerNext ==
  \/ CallReturns
  \/ /\ last.op = "none"
     /\ \E str \in Strings(MaxLen) : CallSlug(str)
  \/ /\ last.op = "none"
     /\ \E component \in Strings(MaxLen - 1), item \in Strings(MaxLen - 1) :
          CallDiscT(component, item)
  \/ /\ last.op = "none"
     /\ \E b \in Builders, d \in DeviceIds, c \in Categories, p \in PartsArgs :
          CallBuilder(b, d, c, p)
  \/ /\ last.op = "none"
     /\ \E b1 \in Builders, b2 \in Builders, d1 \in DeviceIds, d2 \in DeviceIds,
           c1 \in Categories, c2 \in Categories, p1 \in PartsArgs, p2 \in PartsArgs :
          CallPair(b1, b2, d1, d2, c1, c2, p1, p2)

NamerSpec == Init /\ [][NamerNext]_vars

\* The publisher beside the lifecycle, with the clock standing still: the
\* manager starts, connects, is rejected, disconnects and stops, and
\* safe_publish is called in every one of these states.
PubNext ==
  \/ Start
  \/ HostStop
  \/ \E c \in ClientIds, rc \in ReasonCodes : NetConnack(c, rc)
  \/ \E c \in ClientIds, rc \in ReasonCodes : NetDisconnect(c, rc)
  \/ RunCallback
  \/ StartOnConnect
  \/ \E c \in ClientIds : HookReturns(c)
  \/ \E c \in ClientIds : HookRaises(c)
  \/ StartOnDisconnect
  \/ \E topic \in Topics, payload \in Payloads, kwargs \in Kwargs, lib_raises \in BOOLEAN :
       SafePublish(topic, payload, kwargs, lib_raises)

PubSpec == Init /\ [][PubNext]_vars

\* ==================================================================== claims

C3_Order ==
  <<Call("publish_service_discovery", ""), Call("publish_service_availability", ""),
    Call("publish_service_state", "")>> \o SubscribeCalls(mqtt_subscription_topics)

IsPrefix(s, t) == Len(s) <= Len(t) /\ \A i \in 1..Len(s) : s[i] = t[i]

\* C3: every mqtt_on_connect coroutine calls publish-discovery, then
\* publish-availability, then publish-state, and subscribes, once per topic
\* of mqtt_subscription_topics() in list order, only after the third hook
\* has returned; it makes calls only for a reason code 0.
C3_PostConnectOrder ==
  \A c \in ClientIds :
    LET t == task[c].trace IN
      /\ IsPrefix(t, C3_Order)
      /\ (task[c].pc = "hook" => Len(t) = task[c].hook /\ task[c].hook <= 3)
      /\ (task[c].pc = "done" => t = C3_Order)
      /\ (\E i \in 1..Len(t) : t[i].call = "subscribe") => task[c].pc = "done"
      /\ (t # <<>> => net[c] \in {"acked", "closed"})

C3_Witness == \E c \in ClientIds : task[c].pc = "done" /\ task[c].trace = C3_Order

\* ---- C4
\* C4: when the connect call of mqttc_create raises, in the host's first
\* attempt or in one issued by the disconnect handler, running is false,
\* SystemExit is raised and no connect attempt follows.
C4_ConnectFailureIsFatal ==
  /\ (last.op \in {"start", "mqtt_on_disconnect"} /\ last.raised = "SystemExit")
       => (~running /\ exited /\ mqttc = last.post_mqttc)
  /\ exited => (/\ last.op \in {"start", "mqtt_on_disconnect"}
                /\ last.raised = "SystemExit"
                /\ ~ENABLED Start
                /\ ~ENABLED StartOnDisconnect)

C4_Witness ==
  /\ exited
  /\ last.op = "mqtt_on_disconnect"
  /\ last.attempts = 1
  /\ ~running

\* ---- C5
\* C5 as stated: a connect acknowledgment with a non-zero reason code raises
\* the rejection error and has the outcome of a disconnect at that moment: a
\* connect attempt, or running set to false.
C5_RejectionHandledLikeDisconnect ==
  (last.op = "mqtt_on_connect" /\ last.rc # 0)
  => /\ last.raised = "MqttError"
     /\ (last.attempts = 1 \/ ~last.post_running)

\* ---- C6
\* A disconnect of client c that the loop has not handled yet.
DisconnectPending(c) ==
  \E i \in 1..Len(ready) : ready[i].ev.name = "on_disconnect" /\ ready[i].ev.cl = c

C7_BlankTopicValueError ==
  (last.op = "safe_publish" /\ last.topic = "")
  => (last.raised = "ValueError" /\ last.calls = <<>>)

\* C7 amended: safe_publish with an empty topic makes no library publish call
\* and fails in every connection state: with ValueError when a handle is
\* owned, with SystemError when none is.
C7_BlankTopicFails ==
  (last.op = "safe_publish" /\ last.topic = "")
  => /\ last.calls = <<>>
     /\ last.raised = IF last.handle # None THEN "ValueError" ELSE "SystemError"

C7_Witness ==
  /\ last.op = "safe_publish"
  /\ last.topic = ""
  /\ last.handle # None
  /\ last.raised = "ValueError"

\* ---- C8
\* A run of n or more '/' in a string.
HasSlashRun(str, n) ==
  \E i \in 1..(Len(str) - n + 1) : \A j \in 0..(n - 1) : str[i + j] = "/"

\* The payloads C8 speaks of: a mapping with the key "component", or with a
\* value holding six or more '/' in a row.
C8_Questionable(payload) ==
  /\ payload.type = "dict"
  /\ \/ \E it \in payload.items : it.k = "component"
     \/ \E it \in payload.items : HasSlashRun(it.v, 6)

\* C8 as stated: with a handle owned and a non-blank topic, safe_publish of
\* such a payload fails with ValueError and makes no library publish call.
C8_QuestionablePayloadRejected ==
  (/\ last.op = "safe_publish"
   /\ last.handle # None
   /\ last.topic # ""
   /\ C8_Questionable(last.payload))
  => (last.raised = "ValueError" /\ last.calls = <<>>)

\* ---- C9
\* C9 as stated: when validation passes and the library publish raises,
\* safe_publish returns normally, and the handle and the lifecycle state are
\* as before.
C9_PublishFailureNotRaised ==
  (/\ last.op = "safe_publish"
   /\ last.lib_raises
   /\ last.calls # <<>>)
  => (last.raised = "none" /\ last.post_client = last.handle)

\* ---- C10
\* C10 as stated: the library publish call carries the caller's qos / retain
\* when the caller passes them, and the configured default when the caller
\* does not and the configuration has one.
C10_Effective(given, default) == IF given # Unset THEN given ELSE default

C11_WillBeforeEveryConnect ==
  \A c \in ClientIds :
    /\ \A i \in 1..Len(lib[c]) :
         lib[c][i].call = "connect" =>
           \E j \in 1..(i - 1) :
             /\ lib[c][j].call = "will_set"
             /\ lib[c][j].topic = service_slug \o <<"/">> \o W_availability
             /\ lib[c][j].payload = <<"o", "f", "f", "l", "i", "n", "e">>
             /\ lib[c][j].qos = 1
             /\ lib[c][j].retain = TRUE
    /\ (c <= mqttc) = (\E i \in 1..Len(lib[c]) : lib[c][i].call = "connect")

C11_Witness ==
  /\ mqttc >= 2
  /\ \E i \in 1..Len(lib[2]) : lib[2][i].call = "connect"
  /\ \E i \in 1..Len(lib[1]) : lib[1][i].call = "connect"

\* ---- C12
\* C12: of two events of the same kind handed to the wrapper, the handler of
\* the earlier one starts on the loop before the handler of the later one:
\* per kind, the delivery numbers of the handlers that start only grow.
C12_PerKindOrder ==
  [][\A name \in EventNames :
       lastStarted'[name] # lastStarted[name] => lastStarted'[name] > lastStarted[name]]_vars

C12_Witness ==
  /\ lastStarted["on_log"] >= 2
  /\ lastStarted["on_connect"] >= 2
  /\ lastStarted["on_disconnect"] >= 1

\* ---- C13
\* C13: for every string the slug is defined, holds only characters of
\* a-z, A-Z, 0-9 (of the characters given: "a", "Z", "9") and is its own slug.
C13_SlugIdempotentTotal ==
  last.op = "slug" =>
    /\ \A i \in 1..Len(last.result) : last.result[i] \in {"a", "Z", "9"}
    /\ slug(last.result) = last.result
    /\ Len(last.result) <= Len(last.arg)

C13_Witness ==
  /\ last.op = "slug"
  /\ last.arg = <<"_", "a", " ">>
  /\ last.result = <<"a">>

\* ---- C14
\* C14: a topic built by device_t, stat_t, avty_t, attr_t or cmd_t with the
\* sentinel device id "service" is the service slug followed only by the
\* category and the caller's parts (and "set" for cmd_t), and with any other
\* device id the device slug is one of its segments.
C14_ServiceSentinelOmitsDevice ==
  (last.op = "topic" /\ last.a.builder # "svc_t") =>
    /\ last.a.device_id = W_service =>
         last.a.list = <<service_slug, last.a.category>> \o last.a.parts
                         \o (IF last.a.builder = "cmd_t" THEN <<W_set>> ELSE <<>>)
    /\ last.a.device_id # W_service =>
         \E i \in 1..Len(last.a.list) :
            last.a.list[i] = device_slug(service_slug, last.a.device_id)

\* ---- C15
\* A path with an empty segment: empty, or with a slash at an end or two
\* slashes in a row.
HasEmptySegment(path) ==
  \/ path = <<>>
  \/ path[1] = "/"
  \/ path[Len(path)] = "/"
  \/ \E i \in 1..(Len(path) - 1) : path[i] = "/" /\ path[i + 1] = "/"

C15_Expected(component, item) ==
  W_homeassistant \o Slash \o component \o Slash \o service_slug \o Underscore
    \o item \o Slash \o W_config

\* C15 as stated: disc_t raises ValueError when component or item is empty,
\* returns exactly homeassistant/<component>/<slug>_<item>/config otherwise,
\* and never returns a path with an empty segment.
C15_NeverEmptySegment ==
  last.op = "disc_t" =>
    /\ (last.component = <<>> \/ last.item = <<>>) =>
         last.result.raised = "ValueError"
    /\ (last.component # <<>> /\ last.item # <<>>) =>
         /\ last.result.raised = "none"
         /\ last.result.value = C15_Expected(last.component, last.item)
         /\ ~HasEmptySegment(last.result.value)

\* C15: disc_t raises ValueError when component or item is empty and returns
\* nothing then; otherwise it returns exactly
\* homeassistant/<component>/<slug>_<item>/config, which has no empty segment
\* when neither component nor item holds a "/".
C15_DiscoveryTopicValidated ==
  last.op = "disc_t" =>
    /\ (last.component = <<>> \/ last.item = <<>>) =>
         /\ last.result.raised = "ValueError"
         /\ last.result.value = <<>>
    /\ (last.component # <<>> /\ last.item # <<>>) =>
         /\ last.result.raised = "none"
         /\ last.result.value = C15_Expected(last.component, last.item)
         /\ (/\ \A i \in 1..Len(last.component) : last.component[i] # "/"
             /\ \A i \in 1..Len(last.item) : last.item[i] # "/")
              => ~HasEmptySegment(last.result.value)

C15_Witness ==
  /\ last.op = "disc_t"
  /\ last.component = <<"a">>
  /\ last.item = <<>>
  /\ last.result.raised = "ValueError"

\* ---- C19
\* C19: two different topic builders never return the same topic.
C19_NoCollisions ==
  last.op = "topics" => last.a.value # last.b.value

\* ---- C16
\* A client whose connection is being made or is up.
Live(c) == net[c] \in {"connected", "acked", "refused"}

\* C16: at most one client is connecting or connected, and a new client is
\* created only by the start or by the disconnect handler of the current
\* client, when no client is connecting or connected.
C16_SingleAttempt ==
  [][/\ Cardinality({c \in ClientIds : Live(c)'}) <= 1
     /\ mqttc' # mqttc =>
          /\ \A c \in ClientIds : ~Live(c)
          /\ last'.op \in {"start", "mqtt_on_disconnect"}
          /\ last'.op = "mqtt_on_disconnect" => last'.cl = mqttc]_vars

C16_Witness ==
  /\ last.op = "mqtt_on_disconnect"
  /\ last.attempts = 1
  /\ last.cl = 1
  /\ mqttc = 2
  /\ net[1] = "closed"
  /\ Live(2)

\* ---- C17
\* C17: at most one connect handler is suspended in a hook, and no
\* disconnect handler has run while a connect handler is suspended in a hook.
C17_OneTransitionInFlight ==
  /\ Cardinality({c \in ClientIds : task[c].pc = "hook"}) <= 1
  /\ last.op = "mqtt_on_disconnect" => \A c \in ClientIds : task[c].pc # "hook"

\* ---- C18
\* C18: once running is false it stays false and no client is created and
\* no connect is issued.
C18_StoppedIsTerminal ==
  [][~running => (~running' /\ mqttc' = mqttc /\ lib' = lib)]_vars

C18_Witness ==
  /\ last.op = "mqtt_on_disconnect"
  /\ ~last.pre_running
  /\ last.attempts = 0
  /\ ~running
  /\ last.connect_time # NoTime
  /\ last.at > last.connect_time + reconnect_retry_grace_seconds

\* ---- C20
\* C20: the first hook of a connect handler is called in the step that
\* stores the handle for a reason code 0, later hooks and subscribes are
\* called only by that handler, and a handler for another reason code
\* leaves the handle alone and calls nothing.
C20_HandleBeforeHooks ==
  [][\A c \in ClientIds :
       /\ (task[c].trace = <<>> /\ task'[c].trace # <<>>) =>
            /\ last'.op = "mqtt_on_connect"
            /\ last'.cl = c
            /\ last'.rc = 0
            /\ client' = c
       /\ (task[c].trace # <<>> /\ task'[c].trace # task[c].trace) =>
            task[c].pc = "hook"
       /\ (task[c].pc = "none" /\ task'[c].pc = "raised") =>
            /\ last'.op = "mqtt_on_connect"
            /\ last'.cl = c
            /\ last'.rc # 0
            /\ client' = client
            /\ task'[c].trace = <<>>
       /\ (task[c].pc = "raised" /\ task[c].trace = <<>>) => task'[c] = task[c]]_vars

C20_Witness ==
  /\ task[1].pc = "done"
  /\ task[1].trace = ConnectCalls
  /\ task[2].pc = "raised"
  /\ task[2].trace = <<>>
  /\ last.op = "mqtt_on_connect"
  /\ last.rc # 0
  /\ client = None

====
